---- MODULE Spec2Model ----
(***************************************************************************)
(* Model of weather-rs (src/src/main.rs, src/src/structs.rs): one run of   *)
(* the program from argument parsing to rendering or process exit, the     *)
(* cache file it shares with the rest of the system, and the two remote    *)
(* services it queries.                                                    *)
(*                                                                         *)
(* Coordinates are integers in units of 1e-4 degree (40.7128 is 407128),   *)
(* times are Unix seconds.  An Option<T> is the empty sequence for None    *)
(* and the one-element sequence <<v>> for Some(v).                         *)
(***************************************************************************)
EXTENDS Integers, Sequences, FiniteSets, TLC

VARIABLES
    argv,          \* argv[r]: command-line arguments of run r (env::args().skip(1))
    SETTINGS,      \* SETTINGS[r]: Option<Settings>, None until the lazy static is initialised
    SYSTEM_TIME,   \* SYSTEM_TIME[r]: the clock value the run reads
    file,          \* file[p]: content of the cache file at path p
    pc,            \* pc[r]: position of run r in main and its callees
    ip_object,     \* ip_object[r]: Option<IpApiResponse> handed to the forecast request
    weather_data,  \* weather_data[r]: Option<MeteoApiResponse> obtained by the run
    rendered,      \* rendered[r]: sequence of documents handed to a view
    stdout,        \* stdout[r]: what argument parsing and the chosen view printed
    exit_code,     \* exit_code[r]: Option<int>, the process exit status
    log,           \* log[r]: history of the steps run r has taken
    net_geo,       \* answers of the geolocation service, in request order
    net_meteo,     \* answers of the forecast service, in request order
    interfered,    \* interfered[r]: writes to the cache file by other processes
    cv_in,         \* input of a direct call of is_cache_valid
    cv_out,        \* Option<bool>: result of that call
    fn_in,         \* Option: arguments of a direct call of another function
    fn_out         \* Option: what that call returned

vars == <<argv, SETTINGS, SYSTEM_TIME, file, pc, ip_object, weather_data,
          rendered, stdout, exit_code, log, net_geo, net_meteo, interfered,
          cv_in, cv_out, fn_in, fn_out>>

----------------------------------------------------------------------------
(* Bounds of the model *)

MaxArgs == 2        \* longest command line explored by a run
MaxInterfere == 1   \* writes by other processes during one run

----------------------------------------------------------------------------
(* Program constants *)

DEFAULT_LAT == 407128
DEFAULT_LON == -740060
DEFAULT_TIMEZONE == "America/New_York"
CACHE_TIMEOUT == 1800
COORD_TOLERANCE == 1000
LAT_MAX == 900000
LON_MAX == 1800000

None == <<>>
Some(v) == <<v>>
IsSome(o) == Len(o) = 1
Unwrap(o) == o[1]

Abs(x) == IF x < 0 THEN -x ELSE x

\* An f32 is an integer (a coordinate in 1e-4 degree) or NaN, which
\* str::parse::<f32> returns for the text "NaN".  NaN is coded by a number
\* no coordinate of the model takes; every comparison with NaN is false and
\* every difference with NaN is NaN.
NaN == 99999999
is_nan(x) == x = NaN
f32_lt(a, b) == ~is_nan(a) /\ ~is_nan(b) /\ a < b
f32_gt(a, b) == ~is_nan(a) /\ ~is_nan(b) /\ a > b
f32_abs_diff(a, b) == IF is_nan(a) \/ is_nan(b) THEN NaN ELSE Abs(a - b)

----------------------------------------------------------------------------
(* Settings and the command line *)

\* An argument is a record: a "long" argument is the literal s; a "short"
\* one is '-' followed by the characters chars; a "colon" one contains ':'
\* and num tells whether both sides parse as f32 (lat, lon); a "word" is
\* anything else.
Arg(t, s, chars, num, lat, lon) ==
    [t |-> t, s |-> s, chars |-> chars, num |-> num, lat |-> lat, lon |-> lon]
Long(s) == Arg("long", s, <<>>, FALSE, 0, 0)
Short(chars) == Arg("short", "-", chars, FALSE, 0, 0)
Colon(lat, lon) == Arg("colon", ":", <<>>, TRUE, lat, lon)
ColonBad == Arg("colon", ":", <<>>, FALSE, 0, 0)
Word(s) == Arg("word", s, <<>>, FALSE, 0, 0)

\* Result<LatLon, MyError>
LatLon_new(lat, lon) ==
    IF f32_lt(lat, -LAT_MAX) \/ f32_gt(lat, LAT_MAX)
      THEN [ok |-> FALSE, err |-> "InvalidLatitude", lat |-> lat, lon |-> lon]
    ELSE IF f32_lt(lon, -LON_MAX) \/ f32_gt(lon, LON_MAX)
      THEN [ok |-> FALSE, err |-> "InvalidLongitude", lat |-> lat, lon |-> lon]
    ELSE [ok |-> TRUE, err |-> "", lat |-> lat, lon |-> lon]

LatLon(lat, lon) == [lat |-> lat, lon |-> lon]

DefaultSettings ==
    [mode |-> "Day", quiet |-> FALSE, no_color |-> FALSE,
     cache_override |-> FALSE, emoji |-> "Technical",
     temp_scale |-> "Fahrenheit", latlon |-> None]

\* The outcome of the argument loop: the settings so far, whether the
\* loop has stopped ("run": still looping, "break": met "--", "exit": the
\* process exited with status 0), and the lines it printed.
ParseState(settings, st, out) == [settings |-> settings, st |-> st, out |-> out]

LongFlags == {"--quiet", "--week", "--day", "--short", "--refresh",
              "--fahrenheit", "--celsius", "--no-color", "--emoji-nf",
              "--emoji-original", "--emoji-tech"}

ApplyLong(set, s) ==
    CASE s = "--quiet" -> [set EXCEPT !.quiet = TRUE]
      [] s = "--week" -> [set EXCEPT !.mode = "Day"]
      [] s = "--day" -> [set EXCEPT !.mode = "Day"]
      [] s = "--short" -> [set EXCEPT !.mode = "Current", !.no_color = TRUE,
                                      !.emoji = "NerdFont"]
      [] s = "--refresh" -> [set EXCEPT !.cache_override = TRUE]
      [] s = "--fahrenheit" -> [set EXCEPT !.temp_scale = "Fahrenheit"]
      [] s = "--celsius" -> [set EXCEPT !.temp_scale = "Celsius"]
      [] s = "--no-color" -> [set EXCEPT !.no_color = TRUE]
      [] s = "--emoji-nf" -> [set EXCEPT !.emoji = "NerdFont"]
      [] s = "--emoji-original" -> [set EXCEPT !.emoji = "Original"]
      [] s = "--emoji-tech" -> [set EXCEPT !.emoji = "Technical"]
      [] OTHER -> set

ShortFlags == {"q", "w", "d", "s", "r", "f", "c", "n", "o", "t"}

ApplyShortChar(set, c) ==
    CASE c = "q" -> [set EXCEPT !.quiet = TRUE]
      [] c = "w" -> [set EXCEPT !.mode = "Week"]
      [] c = "d" -> [set EXCEPT !.mode = "Day"]
      [] c = "s" -> [set EXCEPT !.mode = "Current", !.no_color = TRUE,
                                !.emoji = "NerdFont"]
      [] c = "r" -> [set EXCEPT !.cache_override = TRUE]
      [] c = "f" -> [set EXCEPT !.temp_scale = "Fahrenheit"]
      [] c = "c" -> [set EXCEPT !.temp_scale = "Celsius"]
      [] c = "n" -> [set EXCEPT !.emoji = "NerdFont"]
      [] c = "o" -> [set EXCEPT !.emoji = "Original"]
      [] c = "t" -> [set EXCEPT !.emoji = "Technical"]
      [] OTHER -> set

\* for char in arg.chars().skip(1): 'v', 'h' and unknown characters exit
RECURSIVE ApplyShort(_, _, _)
ApplyShort(set, chars, i) ==
    IF i > Len(chars) THEN ParseState(set, "run", <<>>)
    ELSE IF chars[i] \in ShortFlags
      THEN ApplyShort(ApplyShortChar(set, chars[i]), chars, i + 1)
    ELSE IF chars[i] = "v" THEN ParseState(set, "exit", <<"version">>)
    ELSE IF chars[i] = "h" THEN ParseState(set, "exit", <<"version", "HELP_MSG">>)
    ELSE ParseState(set, "exit", <<"Unrecognized option">>)

\* one iteration of `for arg in env::args().skip(1)`: the match on arg
ApplyArg(set, a) ==
    CASE a.t = "long" /\ a.s = "--" -> ParseState(set, "break", <<>>)
      [] a.t = "long" /\ a.s = "--version" -> ParseState(set, "exit", <<"version">>)
      [] a.t = "long" /\ a.s = "--help" ->
            ParseState(set, "exit", <<"version", "HELP_MSG">>)
      [] a.t = "long" /\ a.s \in LongFlags -> ParseState(ApplyLong(set, a.s), "run", <<>>)
      [] a.t = "long" /\ a.s \notin LongFlags \cup {"--", "--version", "--help"} ->
            ParseState(set, "exit", <<"Unrecognized option">>)
      [] a.t = "colon" ->
            IF ~a.num THEN ParseState(set, "exit", <<"Failed to parse as latlon">>)
            ELSE LET res == LatLon_new(a.lat, a.lon) IN
              IF res.ok
                THEN ParseState([set EXCEPT !.latlon = Some(LatLon(res.lat, res.lon))],
                                "run", <<>>)
                ELSE ParseState(set, "exit", <<res.err, "Failed to parse as latlon">>)
      [] a.t = "short" -> ApplyShort(set, a.chars, 1)
      [] OTHER -> ParseState(set, "exit", <<"Unrecognized option">>)

\* ParseFrom going on to the next argument where the process should exit
RECURSIVE ParseFrom_past_exit(_, _, _)
ParseFrom_past_exit(set, args, i) ==
    IF i > Len(args) THEN ParseState(set, "run", <<>>)
    ELSE LET r == ApplyArg(set, args[i])
         IN IF r.st \in {"run", "exit"}
              THEN ParseFrom_past_exit(r.settings, args, i + 1) ELSE r

RECURSIVE ParseFrom(_, _, _)
ParseFrom(set, args, i) ==
    IF i > Len(args) THEN ParseState(set, "run", <<>>)
    ELSE LET r == ApplyArg(set, args[i])
         IN IF r.st = "run" THEN ParseFrom(r.settings, args, i + 1) ELSE r

\* static ref SETTINGS: the settings, and whether the process exited instead
ParseSettings(args) == ParseFrom(DefaultSettings, args, 1)

----------------------------------------------------------------------------
(* The forecast document and the cache file *)

\* The fields of MeteoApiResponse the program's control flow reads:
\* current.time, hourly_units.temperature_2m, latitude, longitude, timezone.
\* serial stands for the rest of the body (generationtime_ms and the data
\* series): 0 for a document that was in the cache before the run, k for
\* the answer to the k-th forecast request, -1 for one written by another
\* process during the run.
Doc(time, unit, lat, lon, tz, serial) ==
    [time |-> time, unit |-> unit, latitude |-> lat, longitude |-> lon,
     timezone |-> tz, serial |-> serial]

\* Content of SAVE_LOCATION: no file ("missing"), bytes that are not JSON
\* ("garbage", for instance a truncated write), well-formed JSON that is not
\* a MeteoApiResponse ("json"), or the JSON text of a document ("meteo").
Missing == [kind |-> "missing", doc |-> None]
Garbage == [kind |-> "garbage", doc |-> None]
OtherJson == [kind |-> "json", doc |-> None]

\* serde_json::to_string(&meteo_data)
to_string(doc) == [kind |-> "meteo", doc |-> Some(doc)]

\* fs::read_to_string(path)
read_to_string(f) ==
    IF f.kind = "missing" THEN [ok |-> FALSE, text |-> f] ELSE [ok |-> TRUE, text |-> f]

\* serde_json::from_str::<Value>(text)
from_str_Value(text) == text.kind \in {"json", "meteo"}

\* serde_json::from_str::<MeteoApiResponse>(text): Option of the document
from_str_Meteo(text) == IF text.kind = "meteo" THEN text.doc ELSE None

\* is_cache_valid without its early return on cache_override
is_cache_valid_ignoring_override(f, set, now) ==
    
    LET rd == read_to_string(f) IN
      IF ~rd.ok THEN FALSE
      ELSE LET dec == from_str_Meteo(rd.text) IN
        IF ~IsSome(dec) THEN FALSE
        ELSE LET json == Unwrap(dec) IN
          IF Abs(now - json.time) >= CACHE_TIMEOUT THEN FALSE
          ELSE IF ~(  (set.temp_scale = "Fahrenheit" /\ json.unit = "°F")
                   \/ (set.temp_scale = "Celsius" /\ json.unit = "°C")) THEN FALSE
          ELSE IF IsSome(set.latlon)
                  /\ f32_gt(f32_abs_diff(Unwrap(set.latlon).lat, json.latitude), COORD_TOLERANCE) THEN FALSE
          ELSE IF IsSome(set.latlon)
                  /\ f32_gt(f32_abs_diff(Unwrap(set.latlon).lon, json.longitude), COORD_TOLERANCE) THEN FALSE
          ELSE TRUE


\* is_cache_valid with the age test > CACHE_TIMEOUT in place of >=
is_cache_valid_timeout_inclusive(f, set, now) ==
    IF set.cache_override THEN FALSE ELSE
    LET rd == read_to_string(f) IN
      IF ~rd.ok THEN FALSE
      ELSE LET dec == from_str_Meteo(rd.text) IN
        IF ~IsSome(dec) THEN FALSE
        ELSE LET json == Unwrap(dec) IN
          IF Abs(now - json.time) > CACHE_TIMEOUT THEN FALSE
          ELSE IF ~(  (set.temp_scale = "Fahrenheit" /\ json.unit = "°F")
                   \/ (set.temp_scale = "Celsius" /\ json.unit = "°C")) THEN FALSE
          ELSE IF IsSome(set.latlon)
                  /\ f32_gt(f32_abs_diff(Unwrap(set.latlon).lat, json.latitude), COORD_TOLERANCE) THEN FALSE
          ELSE IF IsSome(set.latlon)
                  /\ f32_gt(f32_abs_diff(Unwrap(set.latlon).lon, json.longitude), COORD_TOLERANCE) THEN FALSE
          ELSE TRUE


\* is_cache_valid without its longitude test
is_cache_valid_latitude_only(f, set, now) ==
    IF set.cache_override THEN FALSE ELSE
    LET rd == read_to_string(f) IN
      IF ~rd.ok THEN FALSE
      ELSE LET dec == from_str_Meteo(rd.text) IN
        IF ~IsSome(dec) THEN FALSE
        ELSE LET json == Unwrap(dec) IN
          IF Abs(now - json.time) >= CACHE_TIMEOUT THEN FALSE
          ELSE IF ~(  (set.temp_scale = "Fahrenheit" /\ json.unit = "°F")
                   \/ (set.temp_scale = "Celsius" /\ json.unit = "°C")) THEN FALSE
          ELSE IF IsSome(set.latlon)
                  /\ f32_gt(f32_abs_diff(Unwrap(set.latlon).lat, json.latitude), COORD_TOLERANCE) THEN FALSE
          ELSE TRUE


\* fn is_cache_valid(path) -> bool
is_cache_valid(f, set, now) ==
    IF set.cache_override THEN FALSE
    ELSE LET rd == read_to_string(f) IN
      IF ~rd.ok THEN FALSE
      ELSE LET dec == from_str_Meteo(rd.text) IN
        IF ~IsSome(dec) THEN FALSE
        ELSE LET json == Unwrap(dec) IN
          IF Abs(now - json.time) >= CACHE_TIMEOUT THEN FALSE
          ELSE IF ~(  (set.temp_scale = "Fahrenheit" /\ json.unit = "°F")
                   \/ (set.temp_scale = "Celsius" /\ json.unit = "°C")) THEN FALSE
          ELSE IF IsSome(set.latlon)
                  /\ f32_gt(f32_abs_diff(Unwrap(set.latlon).lat, json.latitude), COORD_TOLERANCE) THEN FALSE
          ELSE IF IsSome(set.latlon)
                  /\ f32_gt(f32_abs_diff(Unwrap(set.latlon).lon, json.longitude), COORD_TOLERANCE) THEN FALSE
          ELSE TRUE

\* check_cache without its early return on cache_override
check_cache_ignoring_override(f, set) ==
    LET rd == read_to_string(f) IN
      IF rd.ok THEN from_str_Value(rd.text) ELSE FALSE

\* fn check_cache(path) -> bool
check_cache(f, set) ==
    IF set.cache_override THEN FALSE
    ELSE LET rd == read_to_string(f) IN
      IF rd.ok THEN from_str_Value(rd.text) ELSE FALSE

\* fn get_cache() -> Result<MeteoApiResponse, E>: Option of the document
get_cache(f) ==
    LET rd == read_to_string(f) IN
      IF rd.ok THEN from_str_Meteo(rd.text) ELSE None

----------------------------------------------------------------------------
(* The two remote services *)

IpApiResponse(status, lat, lon, tz) ==
    [status |-> status, lat |-> lat, lon |-> lon, timezone |-> tz]

\* fn make_meteo_url(ip_data) -> String: the parameters that vary
make_meteo_url(ip_data, set) ==
    LET ll == IF IsSome(set.latlon)
                THEN Unwrap(set.latlon)
              ELSE IF IsSome(ip_data.lat) /\ IsSome(ip_data.lon)
                THEN LatLon(Unwrap(ip_data.lat), Unwrap(ip_data.lon))
              ELSE LatLon(DEFAULT_LAT, DEFAULT_LON)
        timezone == IF IsSome(ip_data.timezone) THEN Unwrap(ip_data.timezone)
                    ELSE DEFAULT_TIMEZONE
        scale == IF set.temp_scale = "Fahrenheit" THEN "fahrenheit" ELSE "celsius"
    IN [latitude |-> ll.lat, longitude |-> ll.lon, temperature_unit |-> scale,
        timezone |-> timezone]

\* What the geolocation service can answer: no usable answer (request_api
\* returns Err), a located caller, or a body without lat, lon and timezone.
GeoAnswers ==
    { [ok |-> FALSE, body |-> IpApiResponse("", None, None, None)],
      [ok |-> TRUE, body |-> IpApiResponse("success", Some(488566), Some(23522),
                                          Some("Europe/Paris"))],
      [ok |-> TRUE, body |-> IpApiResponse("fail", None, None, None)] }

\* What the forecast service can answer: Err, or a body whose current.time
\* is the service's clock.
MeteoAnswers(now) ==
    { [ok |-> FALSE, time |-> 0], [ok |-> TRUE, time |-> now] }

\* The document the forecast service returns for a request: it is for the
\* place, timezone and unit the url names.
Response(url, ans, k) ==
    Doc(ans.time, IF url.temperature_unit = "fahrenheit" THEN "°F" ELSE "°C",
        url.latitude, url.longitude, url.timezone, k)

\* The k-th request to a service gets the k-th answer of that service.
Answered(net, k, ans) == k <= Len(net) => ans = net[k]
Recorded(net, k, ans) == IF k <= Len(net) THEN net ELSE Append(net, ans)

WriteOutcomes == {"ok", "err_untouched", "err_truncated"}

\* fs_write reporting success without having stored the text
fs_write_dropped(f, text, outcome) ==
    CASE outcome = "ok" -> f
      [] outcome = "err_untouched" -> f
      [] OTHER -> Garbage

\* fs::write(path, text): it succeeds, or fails before the file is opened
\* (the file is untouched), or fails after it was truncated.
fs_write(f, text, outcome) ==
    CASE outcome = "ok" -> text
      [] outcome = "err_untouched" -> f
      [] OTHER -> Garbage

----------------------------------------------------------------------------
(* History of a run *)

\* One step of the history: what happened (ev), in which function (by), the
\* url of a forecast request, the document read, fetched, written or
\* rendered (for is_cache_valid: the document it decoded and tested, if the
\* file decoded), and whether the cache file held a decodable document when
\* the step was taken.
Ev(ev, by, url, doc) == [ev |-> ev, by |-> by, url |-> url, doc |-> doc]
Stamped(e, f) ==
    [ev |-> e.ev, by |-> e.by, url |-> e.url, doc |-> e.doc,
     decodable |-> IsSome(get_cache(f))]

Count(l, evs) == Cardinality({i \in DOMAIN l : l[i].ev \in evs})
GeoEvents == {"geo_ok", "geo_err"}
MeteoEvents == {"meteo_ok", "meteo_err"}
WriteEvents == {"write_ok", "write_err"}

Runs == DOMAIN pc
Finished(r) == pc[r] \in {"done", "exited"}

S(r) == Unwrap(SETTINGS[r])

\* static ref SAVE_LOCATION: env::temp_dir() joined with
\* "weather_data_cache.json".  Runs that are given a file each have a
\* temporary directory each (the path is the run's number); runs started in
\* one system share the path 1.
SAVE_LOCATION(r) == IF r \in DOMAIN file THEN r ELSE 1
Logged(r, evs) ==
    log' = [log EXCEPT ![r] = @ \o [i \in DOMAIN evs |-> Stamped(evs[i], file[SAVE_LOCATION(r)])]]
Goto(r, label) == pc' = [pc EXCEPT ![r] = label]
Exit(r, code) == exit_code' = [exit_code EXCEPT ![r] = Some(code)]

netvars == <<net_geo, net_meteo>>
cvvars == <<cv_in, cv_out, fn_in, fn_out>>
envvars == <<argv, SYSTEM_TIME, interfered>>

----------------------------------------------------------------------------
(* The steps of a run *)

\* lazy_static SETTINGS, initialised at its first use (the first line of
\* check_cache): the argument loop, which may exit the process.
ParseArgs(r) ==
    /\ pc[r] = "start"
    /\ LET p == ParseSettings(argv[r]) IN
         IF p.st = "exit"
           THEN /\ Goto(r, "exited")
                /\ Exit(r, 0)
                /\ stdout' = [stdout EXCEPT ![r] = @ \o p.out]
                /\ Logged(r, <<Ev("exit", "SETTINGS", None, None)>>)
                /\ UNCHANGED SETTINGS
           ELSE /\ Goto(r, "check_cache")
                /\ SETTINGS' = [SETTINGS EXCEPT ![r] = Some(p.settings)]
                /\ Logged(r, <<Ev("settings", "SETTINGS", None, None)>>)
                /\ UNCHANGED <<exit_code, stdout>>
    /\ UNCHANGED <<file, ip_object, weather_data, rendered, netvars, cvvars, envvars>>

\* main: match check_cache(&*SAVE_LOCATION)
CheckCache(r) ==
    /\ pc[r] = "check_cache"
    /\ Goto(r, IF check_cache(file[SAVE_LOCATION(r)], S(r)) THEN "is_cache_valid" ELSE "no_cache_arm")
    /\ Logged(r, <<Ev("check_cache", "main", None, None)>>)
    /\ UNCHANGED <<SETTINGS, file, ip_object, weather_data, rendered, stdout, exit_code,
                   netvars, cvvars, envvars>>

\* main: match is_cache_valid(&*SAVE_LOCATION)
IsCacheValid(r) ==
    /\ pc[r] = "is_cache_valid"
    /\ Goto(r, IF is_cache_valid(file[SAVE_LOCATION(r)], S(r), SYSTEM_TIME[r])
                 THEN "use_cache" ELSE "main_request_ip")
    /\ Logged(r, <<Ev("is_cache_valid", "main", None,
                      IF S(r).cache_override THEN None ELSE get_cache(file[SAVE_LOCATION(r)]))>>)
    /\ UNCHANGED <<SETTINGS, file, ip_object, weather_data, rendered, stdout, exit_code,
                   netvars, cvvars, envvars>>

\* UseCache handing a decodable cache to no_cache_arm all the same
UseCache_refetching(r) ==
    /\ pc[r] = "use_cache"
    /\ LET c == get_cache(file[SAVE_LOCATION(r)]) IN
         /\ Goto(r, "no_cache_arm")
         /\ Logged(r, <<Ev(IF IsSome(c) THEN "get_cache_ok" ELSE "get_cache_err",
                           "use_cache", None, c)>>)
         /\ UNCHANGED weather_data
    /\ UNCHANGED <<SETTINGS, file, ip_object, rendered, stdout, exit_code,
                   netvars, cvvars, envvars>>

\* fn use_cache() -> MeteoApiResponse
UseCache(r) ==
    /\ pc[r] = "use_cache"
    /\ LET c == get_cache(file[SAVE_LOCATION(r)]) IN
         IF IsSome(c)
           THEN /\ weather_data' = [weather_data EXCEPT ![r] = c]
                /\ Goto(r, "render")
                /\ Logged(r, <<Ev("get_cache_ok", "use_cache", None, c)>>)
           ELSE /\ Goto(r, "no_cache_arm")
                /\ Logged(r, <<Ev("get_cache_err", "use_cache", None, None)>>)
                /\ UNCHANGED weather_data
    /\ UNCHANGED <<SETTINGS, file, ip_object, rendered, stdout, exit_code,
                   netvars, cvvars, envvars>>

\* main, cache invalid: match request_api(IP_URL)
MainRequestIp(r) ==
    /\ pc[r] = "main_request_ip"
    /\ \E ans \in GeoAnswers :
         LET k == Count(log[r], GeoEvents) + 1 IN
         /\ Answered(net_geo, k, ans)
         /\ net_geo' = Recorded(net_geo, k, ans)
         /\ IF ans.ok
              THEN /\ ip_object' = [ip_object EXCEPT ![r] = Some(ans.body)]
                   /\ Goto(r, "get_meteo_or_ext")
                   /\ Logged(r, <<Ev("geo_ok", "main", None, None)>>)
              ELSE /\ Goto(r, "main_get_cache")
                   /\ Logged(r, <<Ev("geo_err", "main", None, None)>>)
                   /\ UNCHANGED ip_object
    /\ UNCHANGED <<SETTINGS, file, weather_data, rendered, stdout, exit_code, net_meteo,
                   cvvars, envvars>>

\* MainGetCache with latitude and longitude of the cached document exchanged
MainGetCache_swapped(r) ==
    /\ pc[r] = "main_get_cache"
    /\ LET c == get_cache(file[SAVE_LOCATION(r)]) IN
         IF IsSome(c)
           THEN LET save_data == Unwrap(c) IN
                /\ ip_object' = [ip_object EXCEPT ![r] =
                       Some(IpApiResponse("cache", Some(save_data.longitude),
                                          Some(save_data.latitude),
                                          Some(save_data.timezone)))]
                /\ Goto(r, "get_meteo_or_cache")
                /\ Logged(r, <<Ev("get_cache_ok", "main", None, c)>>)
           ELSE /\ Goto(r, "no_cache_arm")
                /\ Logged(r, <<Ev("get_cache_err", "main", None, None)>>)
                /\ UNCHANGED ip_object
    /\ UNCHANGED <<SETTINGS, file, weather_data, rendered, stdout, exit_code,
                   netvars, cvvars, envvars>>

\* main, no ip data received: match get_cache()
MainGetCache(r) ==
    /\ pc[r] = "main_get_cache"
    /\ LET c == get_cache(file[SAVE_LOCATION(r)]) IN
         IF IsSome(c)
           THEN LET save_data == Unwrap(c) IN
                /\ ip_object' = [ip_object EXCEPT ![r] =
                       Some(IpApiResponse("cache", Some(save_data.latitude),
                                          Some(save_data.longitude),
                                          Some(save_data.timezone)))]
                /\ Goto(r, "get_meteo_or_cache")
                /\ Logged(r, <<Ev("get_cache_ok", "main", None, c)>>)
           ELSE /\ Goto(r, "no_cache_arm")
                /\ Logged(r, <<Ev("get_cache_err", "main", None, None)>>)
                /\ UNCHANGED ip_object
    /\ UNCHANGED <<SETTINGS, file, weather_data, rendered, stdout, exit_code,
                   netvars, cvvars, envvars>>

\* NoCacheArm taking the default place without asking the geolocation service
NoCacheArm_without_request(r) ==
    /\ pc[r] = "no_cache_arm"
    /\ ip_object' = [ip_object EXCEPT ![r] =
           Some(IpApiResponse("default", Some(DEFAULT_LAT),
                              Some(DEFAULT_LON), Some(DEFAULT_TIMEZONE)))]
    /\ Logged(r, <<Ev("no_cache_arm", "no_cache_arm", None, None)>>)
    /\ Goto(r, "get_meteo_or_ext")
    /\ UNCHANGED <<SETTINGS, file, weather_data, rendered, stdout, exit_code,
                   netvars, cvvars, envvars>>

\* fn no_cache_arm() -> MeteoApiResponse, up to its call of get_meteo_or_ext
NoCacheArm(r) ==
    /\ pc[r] = "no_cache_arm"
    /\ \E ans \in GeoAnswers :
         LET k == Count(log[r], GeoEvents) + 1 IN
         /\ Answered(net_geo, k, ans)
         /\ net_geo' = Recorded(net_geo, k, ans)
         /\ IF ans.ok
              THEN /\ ip_object' = [ip_object EXCEPT ![r] = Some(ans.body)]
                   /\ Logged(r, <<Ev("geo_ok", "no_cache_arm", None, None)>>)
              ELSE /\ ip_object' = [ip_object EXCEPT ![r] =
                          Some(IpApiResponse("default", Some(DEFAULT_LAT),
                                             Some(DEFAULT_LON), Some(DEFAULT_TIMEZONE)))]
                   /\ Logged(r, <<Ev("geo_err", "no_cache_arm", None, None)>>)
    /\ Goto(r, "get_meteo_or_ext")
    /\ UNCHANGED <<SETTINGS, file, weather_data, rendered, stdout, exit_code, net_meteo,
                   cvvars, envvars>>

\* StoreAndReturn with the result of fs::write unwrapped: a failed write
\* ends the process
StoreAndReturn_unwrap(r, by, meteo_url, meteo_data, wr) ==
    /\ file' = [file EXCEPT ![SAVE_LOCATION(r)] = fs_write(@, to_string(meteo_data), wr)]
    /\ IF wr = "ok"
         THEN /\ weather_data' = [weather_data EXCEPT ![r] = Some(meteo_data)]
              /\ Goto(r, "render")
              /\ Logged(r, <<Ev("meteo_ok", by, Some(meteo_url), Some(meteo_data)),
                             Ev("write_ok", by, None, Some(meteo_data))>>)
              /\ UNCHANGED exit_code
         ELSE /\ Goto(r, "exited")
              /\ Exit(r, 101)
              /\ Logged(r, <<Ev("meteo_ok", by, Some(meteo_url), Some(meteo_data)),
                             Ev("write_err", by, None, Some(meteo_data)),
                             Ev("exit", by, None, None)>>)
              /\ UNCHANGED weather_data

\* The Ok arm of get_meteo_or_ext and of get_meteo_or_cache: the document is
\* serialised and written to SAVE_LOCATION, and returned whether or not the
\* write succeeded.
StoreAndReturn(r, by, meteo_url, meteo_data, wr) ==
    /\ file' = [file EXCEPT ![SAVE_LOCATION(r)] = fs_write(@, to_string(meteo_data), wr)]
    /\ weather_data' = [weather_data EXCEPT ![r] = Some(meteo_data)]
    /\ Goto(r, "render")
    /\ Logged(r, <<Ev("meteo_ok", by, Some(meteo_url), Some(meteo_data)),
                   Ev(IF wr = "ok" THEN "write_ok" ELSE "write_err", by, None,
                      Some(meteo_data))>>)
    /\ UNCHANGED exit_code

\* fn get_meteo_or_ext(ip_object) -> MeteoApiResponse
GetMeteoOrExt(r) ==
    /\ pc[r] = "get_meteo_or_ext"
    /\ \E ans \in MeteoAnswers(SYSTEM_TIME[r]), wr \in WriteOutcomes :
         LET k == Count(log[r], MeteoEvents) + 1
             meteo_url == make_meteo_url(Unwrap(ip_object[r]), S(r))
         IN
         /\ Answered(net_meteo, k, ans)
         /\ net_meteo' = Recorded(net_meteo, k, ans)
         /\ IF ans.ok
              THEN StoreAndReturn(r, "get_meteo_or_ext", meteo_url,
                                  Response(meteo_url, ans, k), wr)
              ELSE /\ Goto(r, "exited")
                   /\ Exit(r, 1)
                   /\ Logged(r, <<Ev("meteo_err", "get_meteo_or_ext", Some(meteo_url), None),
                                  Ev("exit", "get_meteo_or_ext", None, None)>>)
                   /\ UNCHANGED <<file, weather_data>>
    /\ UNCHANGED <<SETTINGS, ip_object, rendered, stdout, net_geo, cvvars, envvars>>

\* fn get_meteo_or_cache(ip_object) -> MeteoApiResponse, up to its call of use_cache
GetMeteoOrCache(r) ==
    /\ pc[r] = "get_meteo_or_cache"
    /\ \E ans \in MeteoAnswers(SYSTEM_TIME[r]), wr \in WriteOutcomes :
         LET k == Count(log[r], MeteoEvents) + 1
             meteo_url == make_meteo_url(Unwrap(ip_object[r]), S(r))
         IN
         /\ Answered(net_meteo, k, ans)
         /\ net_meteo' = Recorded(net_meteo, k, ans)
         /\ IF ans.ok
              THEN StoreAndReturn(r, "get_meteo_or_cache", meteo_url,
                                  Response(meteo_url, ans, k), wr)
              ELSE /\ Goto(r, "use_cache")
                   /\ Logged(r, <<Ev("meteo_err", "get_meteo_or_cache", Some(meteo_url), None)>>)
                   /\ UNCHANGED <<file, weather_data, exit_code>>
    /\ UNCHANGED <<SETTINGS, ip_object, rendered, stdout, net_geo, cvvars, envvars>>

\* main: match &SETTINGS.mode
view(mode) ==
    CASE mode = "Current" -> "one_line_weather"
      [] mode = "Day" -> "hourly_weather"
      [] mode = "Week" -> "weekly_weather"

\* Render handing the document to the view a second time
Render_twice(r) ==
    /\ pc[r] = "render"
    /\ rendered' = [rendered EXCEPT ![r] = @ \o <<Unwrap(weather_data[r]),
                                                  Unwrap(weather_data[r])>>]
    /\ stdout' = [stdout EXCEPT ![r] = @ \o <<view(S(r).mode), view(S(r).mode)>>]
    /\ Exit(r, 0)
    /\ Goto(r, "done")
    /\ Logged(r, <<Ev("render", "main", None, weather_data[r])>>)
    /\ UNCHANGED <<SETTINGS, file, ip_object, weather_data, netvars, cvvars, envvars>>

\* main: match &SETTINGS.mode, the document goes to one view; main returns
Render(r) ==
    /\ pc[r] = "render"
    /\ rendered' = [rendered EXCEPT ![r] = Append(@, Unwrap(weather_data[r]))]
    /\ stdout' = [stdout EXCEPT ![r] = Append(@, view(S(r).mode))]
    /\ Exit(r, 0)
    /\ Goto(r, "done")
    /\ Logged(r, <<Ev("render", "main", None, weather_data[r])>>)
    /\ UNCHANGED <<SETTINGS, file, ip_object, weather_data, netvars, cvvars, envvars>>

----------------------------------------------------------------------------
(* The rest of the system *)

\* What another process may leave at SAVE_LOCATION: it removes the file,
\* is part-way through writing it, or (another run of this program) has
\* stored the document it fetched.
EnvFiles(now) ==
    {Missing, Garbage}
      \cup { to_string(Doc(now, u, 488566, 23522, "Europe/Paris", -1)) : u \in {"°F", "°C"} }

\* Another process changes the cache file while run r is under way.
Interfere(r) ==
    /\ ~Finished(r)
    /\ interfered[r] < MaxInterfere
    /\ \E c \in EnvFiles(SYSTEM_TIME[r]) \ {file[SAVE_LOCATION(r)]} :
         file' = [file EXCEPT ![SAVE_LOCATION(r)] = c]
    /\ interfered' = [interfered EXCEPT ![r] = @ + 1]
    /\ UNCHANGED <<argv, SETTINGS, SYSTEM_TIME, pc, ip_object, weather_data, rendered, stdout,
                   exit_code, log, netvars, cvvars>>

----------------------------------------------------------------------------
(* Initial states *)

Clocks == {1700000000}

\* The place an explicit LAT:LON argument names in the runs explored.
ArgPlace == LatLon(515074, -1278)

RunArgs == {Long("--refresh"), Long("--celsius"), Long("--help"),
            Colon(ArgPlace.lat, ArgPlace.lon)}

RECURSIVE SeqsUpTo(_, _)
SeqsUpTo(A, n) ==
    IF n = 0 THEN {<<>>}
    ELSE LET shorter == SeqsUpTo(A, n - 1)
         IN shorter \cup {Append(s, a) : s \in shorter, a \in A}

\* Cache files a run may find: none, not JSON, JSON of another shape, or a
\* document that is just too old or just young enough, in either unit, for
\* the place of ArgPlace or for one 0.1 degree and a bit north of it.
RunFiles(now) ==
    {Missing, Garbage, OtherJson}
      \cup { to_string(Doc(t, u, lat, ArgPlace.lon, "Europe/London", 0)) :
               t \in {now - CACHE_TIMEOUT, now - CACHE_TIMEOUT + 1},
               u \in {"°F", "°C"},
               lat \in {ArgPlace.lat, ArgPlace.lat + COORD_TOLERANCE + 1} }

NoCall == [file |-> Missing, settings |-> DefaultSettings, now |-> 0]

InitRun(R) ==
    /\ argv \in [R -> SeqsUpTo(RunArgs, MaxArgs)]
    /\ SYSTEM_TIME \in [R -> Clocks]
    /\ SETTINGS = [r \in R |-> None]
    /\ pc = [r \in R |-> "start"]
    /\ ip_object = [r \in R |-> None]
    /\ weather_data = [r \in R |-> None]
    /\ rendered = [r \in R |-> <<>>]
    /\ stdout = [r \in R |-> <<>>]
    /\ exit_code = [r \in R |-> None]
    /\ log = [r \in R |-> <<>>]
    /\ interfered = [r \in R |-> 0]
    /\ net_geo = <<>>
    /\ net_meteo = <<>>
    /\ cv_out = None
    /\ fn_out = None

\* One run of the program.
Init ==
    /\ InitRun({1})
    /\ file \in [{1} -> RunFiles(SYSTEM_TIME[1])]
    /\ cv_in = NoCall
    /\ fn_in = None

Next ==
    \/ \E r \in Runs : ParseArgs(r)
    \/ \E r \in Runs : CheckCache(r)
    \/ \E r \in Runs : IsCacheValid(r)
    \/ \E r \in Runs : UseCache(r)
    \/ \E r \in Runs : MainRequestIp(r)
    \/ \E r \in Runs : MainGetCache(r)
    \/ \E r \in Runs : NoCacheArm(r)
    \/ \E r \in Runs : GetMeteoOrExt(r)
    \/ \E r \in Runs : GetMeteoOrCache(r)
    \/ \E r \in Runs : Render(r)
    \/ \E r \in Runs : Interfere(r)

Spec == Init /\ [][Next]_vars

----------------------------------------------------------------------------
(* Two runs side by side: the same command line, the same clock and the
   same answers from the two services, each run with a cache file of its
   own.  The files are equal, or the first is well-formed JSON of another
   shape and the second is absent. *)

InitTwin ==
    /\ InitRun({1, 2})
    /\ argv[1] = argv[2]
    /\ SYSTEM_TIME[1] = SYSTEM_TIME[2]
    /\ \E f \in RunFiles(SYSTEM_TIME[1]) :
         \/ file = [r \in {1, 2} |-> f]
         \/ f = OtherJson /\ file = [r \in {1, 2} |-> IF r = 1 THEN OtherJson ELSE Missing]
    /\ cv_in = NoCall
    /\ fn_in = None

NextTwin ==
    \/ \E r \in Runs : ParseArgs(r)
    \/ \E r \in Runs : CheckCache(r)
    \/ \E r \in Runs : IsCacheValid(r)
    \/ \E r \in Runs : UseCache(r)
    \/ \E r \in Runs : MainRequestIp(r)
    \/ \E r \in Runs : MainGetCache(r)
    \/ \E r \in Runs : NoCacheArm(r)
    \/ \E r \in Runs : GetMeteoOrExt(r)
    \/ \E r \in Runs : GetMeteoOrCache(r)
    \/ \E r \in Runs : Render(r)

SpecTwin == InitTwin /\ [][NextTwin]_vars

----------------------------------------------------------------------------
(* is_cache_valid called on its own, for every cache file, clock, unit
   setting and coordinate setting of a bounded set *)

CallIsCacheValid ==
    /\ cv_out = None
    /\ cv_in # NoCall
    /\ cv_out' = Some(is_cache_valid(cv_in.file, cv_in.settings, cv_in.now))
    /\ UNCHANGED <<argv, SETTINGS, SYSTEM_TIME, file, pc, ip_object, weather_data,
                   rendered, stdout, exit_code, log, netvars, interfered, cv_in,
                   fn_in, fn_out>>

\* Offsets around the 0.1 degree tolerance, on both sides.
CoordOffsets == {0, COORD_TOLERANCE, COORD_TOLERANCE + 1, -COORD_TOLERANCE,
                 -(COORD_TOLERANCE + 1)}

\* Offsets around the 1800 s timeout, behind and ahead of the clock.
TimeOffsets == {0, CACHE_TIMEOUT - 1, CACHE_TIMEOUT, -(CACHE_TIMEOUT - 1),
                -CACHE_TIMEOUT}

ValidFiles(now) ==
    {Missing, Garbage, OtherJson}
      \cup { to_string(Doc(now + dt, u, ArgPlace.lat + dlat, ArgPlace.lon + dlon,
                           "Europe/London", 0)) :
               dt \in TimeOffsets, u \in {"°F", "°C", "K"},
               dlat \in CoordOffsets, dlon \in CoordOffsets }

ValidSettings ==
    { [DefaultSettings EXCEPT !.cache_override = o, !.temp_scale = ts, !.latlon = ll] :
        o \in BOOLEAN, ts \in {"Fahrenheit", "Celsius"},
        ll \in {None, Some(ArgPlace)} }

InitValid ==
    /\ InitRun({})
    /\ file = [r \in {} |-> Missing]
    /\ \E now \in Clocks :
         cv_in \in [file : ValidFiles(now), settings : ValidSettings, now : {now}]
    /\ fn_in = None

NextValid == CallIsCacheValid

SpecValid == InitValid /\ [][NextValid]_vars

----------------------------------------------------------------------------
(* Properties of is_cache_valid (checked under SpecValid) *)

CvCalled == IsSome(cv_out)
CvResult == Unwrap(cv_out)
CvDoc == Unwrap(cv_in.file.doc)
CvDecodable == cv_in.file.kind = "meteo"
CvAge == Abs(cv_in.now - CvDoc.time)
CvUnitMatches ==
    \/ cv_in.settings.temp_scale = "Fahrenheit" /\ CvDoc.unit = "°F"
    \/ cv_in.settings.temp_scale = "Celsius" /\ CvDoc.unit = "°C"

\* C2: is_cache_valid returns false whenever cache_override is set, whatever
\* the cache file holds and whatever the clock, the unit setting and the
\* coordinate setting are.
C2_OverrideInvalidates ==
    (CvCalled /\ cv_in.settings.cache_override) => CvResult = FALSE

\* C2 witness: the call has returned with cache_override set on a cache that
\* is of age 0, in the selected unit, with no explicit coordinates.
C2_Witness ==
    /\ CvCalled
    /\ cv_in.settings.cache_override
    /\ CvDecodable /\ CvAge = 0 /\ CvUnitMatches
    /\ cv_in.settings.latlon = None

----------------------------------------------------------------------------
(* Properties of a run (checked under Spec, C8 under SpecTwin) *)

Undisturbed(r) == interfered[r] = 0
Events(r) == DOMAIN log[r]
IsRequest(e) == e.ev \in GeoEvents \cup MeteoEvents
CachedDoc(r) == Unwrap(get_cache(file[SAVE_LOCATION(r)]))

\* C1: whenever the forecast request fails in a run and the cache file holds
\* a decodable forecast document, the run renders that cached document
\* instead of terminating, on every path that reaches a forecast request.
\* (Stated for runs without --refresh whose cache file no other process
\* touches.)
C1_FailedForecastRendersCache ==
    \A r \in Runs :
        (/\ Finished(r) /\ Undisturbed(r)
         /\ IsSome(SETTINGS[r]) /\ ~S(r).cache_override
         /\ \E i \in Events(r) : log[r][i].ev = "meteo_err" /\ log[r][i].decodable)
        => /\ exit_code[r] = Some(0)
           /\ rendered[r] = <<CachedDoc(r)>>

\* At step i of run r a forecast request has failed and the cache file holds
\* no decodable document: the request failed on such a file, or the read of
\* the cache that followed a failed request failed too.
NoCacheLeft(r, i) ==
    \/ log[r][i].ev = "meteo_err" /\ ~log[r][i].decodable
    \/ /\ log[r][i].ev = "get_cache_err"
       /\ \E h \in 1..(i - 1) : log[r][h].ev = "meteo_err"

\* C5: once a forecast request has failed and the cache cannot be read or
\* decoded, the run terminates with exit status 1: nothing is rendered and
\* no further geolocation or forecast request is issued.
C5_NoFurtherFallback ==
    \A r \in Runs : \A i \in Events(r) :
        NoCacheLeft(r, i)
        => /\ \A j \in Events(r) :
                j > i => ~IsRequest(log[r][j]) /\ log[r][j].ev # "render"
           /\ Finished(r) => exit_code[r] = Some(1) /\ rendered[r] = <<>>

\* C6: in any single run each network operation is issued at most once: at
\* most one geolocation request and at most one forecast request.  (Stated
\* for runs whose cache file no other process touches.)
C6_EachRequestAtMostOnce ==
    \A r \in Runs :
        Undisturbed(r)
        => /\ Count(log[r], GeoEvents) <= 1
           /\ Count(log[r], MeteoEvents) <= 1

\* The forecast request that follows a failed geolocation request: no other
\* geolocation request lies between the two.
Follows(r, i, j) ==
    /\ i < j
    /\ log[r][i].ev = "geo_err"
    /\ log[r][j].ev \in MeteoEvents
    /\ \A h \in (i + 1)..(j - 1) : log[r][h].ev \notin GeoEvents
FromDefault(r, url) ==
    /\ url.timezone = "America/New_York"
    /\ S(r).latlon = None => url.latitude = 407128 /\ url.longitude = -740060
FromCached(r, url, doc) ==
    /\ url.timezone = doc.timezone
    /\ S(r).latlon = None => url.latitude = doc.latitude /\ url.longitude = doc.longitude
NotEndedByGeoFailure(r) ==
    \A i \in Events(r) :
        log[r][i].ev = "geo_err" => i = Len(log[r]) \/ log[r][i + 1].ev # "exit"

Requests(r) ==
    LET sel == SelectSeq(log[r], IsRequest)
    IN [i \in DOMAIN sel |-> <<sel[i].ev, sel[i].url>>]
Outcome(r) == <<exit_code[r], rendered[r]>>

\* C8: a run that starts with a cache file that is well-formed JSON but not a
\* forecast document behaves as a run that starts with no cache file: under
\* the same network outcomes it issues the same sequence of requests and
\* reaches the same final outcome.
C8_BadSchemaAsMissing ==
    (Finished(1) /\ Finished(2))
    => /\ Requests(1) = Requests(2)
       /\ Outcome(1) = Outcome(2)

\* The events a step adds to the history of run r, and the shape of a step
\* that fetched a document and tried to store it.
NewEvents(r) == SubSeq(log'[r], Len(log[r]) + 1, Len(log'[r]))
FetchedAndStored(r, new) ==
    /\ Len(new) = 2
    /\ new[1].ev = "meteo_ok"
    /\ new[2].ev \in WriteEvents
    /\ new[2].doc = new[1].doc
    /\ new[2].ev = "write_ok" => file'[SAVE_LOCATION(r)] = to_string(Unwrap(new[1].doc))
    /\ new[2].ev = "write_err" => file'[SAVE_LOCATION(r)] \in {file[SAVE_LOCATION(r)], Garbage}
C9_Step ==
    \A r \in Runs :
        LET new == NewEvents(r) IN
        /\ (file'[SAVE_LOCATION(r)] # file[SAVE_LOCATION(r)] /\ interfered'[r] = interfered[r])
              => FetchedAndStored(r, new)
        /\ (\E i \in DOMAIN new : new[i].ev \in {"meteo_ok"} \cup WriteEvents)
              => FetchedAndStored(r, new)
        /\ (\E i \in DOMAIN new : new[i].ev = "render")
              => (\A i \in Events(r) : log[r][i].ev = "meteo_ok"
                      => i < Len(log[r]) /\ log[r][i + 1].ev \in WriteEvents)

\* C9: the cache file is written only directly after a successful forecast
\* request, with the document just fetched; every successful forecast
\* request is followed by such a write attempt before rendering; every other
\* step of a run leaves the cache file unchanged.
C9_WrittenOnlyAfterFetch == [][C9_Step]_vars

\* C9 witness: a forecast request has succeeded and the cache file, which
\* held an older document, now holds the document just fetched.
C9_Witness ==
    \E r \in Runs : \E i \in Events(r) :
        /\ log[r][i].ev = "write_ok"
        /\ log[r][i - 1].ev = "meteo_ok"
        /\ log[r][i].decodable
        /\ file[SAVE_LOCATION(r)] = to_string(Unwrap(log[r][i - 1].doc))
        /\ Undisturbed(r)

\* C10: when the cache write fails after a successful forecast request, the
\* run does not end with an error: it renders the freshly fetched document,
\* and the previous cache content is not used for this run.
C10_WriteFailureNotFatal ==
    \A r \in Runs : \A i \in Events(r) :
        log[r][i].ev = "write_err"
        => /\ pc[r] \in {"render", "done"}
           /\ \A j \in Events(r) :
                j > i => log[r][j].ev = "render" /\ log[r][j].doc = log[r][i - 1].doc
           /\ weather_data[r] = log[r][i - 1].doc
           /\ Finished(r) => /\ exit_code[r] = Some(0)
                             /\ rendered[r] = <<Unwrap(log[r][i - 1].doc)>>

\* C10 witness: the write failed and left the older document of the cache in
\* place; the run has ended normally having rendered the fetched document.
C10_Witness ==
    \E r \in Runs : \E i \in Events(r) :
        /\ log[r][i].ev = "write_err"
        /\ Finished(r)
        /\ IsSome(get_cache(file[SAVE_LOCATION(r)])) /\ CachedDoc(r).serial = 0
        /\ Len(rendered[r]) = 1 /\ rendered[r][1].serial = 1
        /\ exit_code[r] = Some(0)

----------------------------------------------------------------------------
(* Order of the steps of a run (checked under Spec) *)

\* The steps that read the cache file.  check_cache and is_cache_valid
\* return before reading it when cache_override is set.
CacheRead(r, e) ==
    \/ e.ev \in {"get_cache_ok", "get_cache_err"}
    \/ e.ev \in {"check_cache", "is_cache_valid"} /\ ~S(r).cache_override

\* Step i of run r has an earlier step of one of the kinds evs.
Preceded(r, i, evs) == \E j \in 1..(i - 1) : log[r][j].ev \in evs

\* Step i of run r renders a document the run obtained earlier: fetched,
\* or read from the cache by use_cache.
RendersObtained(r, i) ==
    \E j \in 1..(i - 1) :
       /\ log[r][j].doc = log[r][i].doc
       /\ \/ log[r][j].ev = "meteo_ok"
          \/ log[r][j].ev = "get_cache_ok" /\ log[r][j].by = "use_cache"

----------------------------------------------------------------------------
(* The refresh flag (checked under Spec) *)

\* C12: a run whose settings have cache_override set never reads the cache
\* file and never renders a cached document: what it renders was fetched
\* earlier in the same run, and it ends either having rendered that one
\* document or with exit status 1, whatever the cache file holds.
C12_RefreshNeverUsesCache ==
    \A r \in Runs :
       (IsSome(SETTINGS[r]) /\ S(r).cache_override) =>
          /\ \A i \in DOMAIN log[r] :
                /\ ~CacheRead(r, log[r][i])
                /\ log[r][i].ev = "render" =>
                      \E j \in 1..(i - 1) : /\ log[r][j].ev = "meteo_ok"
                                            /\ log[r][j].doc = log[r][i].doc
          /\ Finished(r) =>
                \/ exit_code[r] = Some(1) /\ rendered[r] = <<>>
                \/ /\ exit_code[r] = Some(0)
                   /\ Len(rendered[r]) = 1
                   /\ rendered[r][1].serial >= 1

\* A run with --refresh that found a decodable cache file when it started
\* and has rendered the document it fetched.
C12_Witness ==
    \E r \in Runs :
       /\ pc[r] = "done"
       /\ S(r).cache_override
       /\ log[r][1].decodable
       /\ rendered[r][1].serial = 1

----------------------------------------------------------------------------
(* One run for every command line of a wider set of arguments, without
   interference: every flag that ends the process, both spellings of the
   mode flags, and coordinates that are in range, out of range, not a
   number, or not numeric at all. *)

AllArgs ==
    {Long("--"), Long("--version"), Long("--help"), Long("--bogus"),
     Long("--week"), Long("--day"), Long("--short"), Long("--refresh"),
     Short(<<"v">>), Short(<<"h">>), Short(<<"x">>), Short(<<"w">>),
     Short(<<"d">>), Short(<<"s">>), Short(<<"w", "h">>),
     Colon(ArgPlace.lat, ArgPlace.lon), Colon(LAT_MAX + 1, ArgPlace.lon),
     Colon(NaN, ArgPlace.lon), ColonBad, Word("week")}

\* No cache file, or a document for ArgPlace in the default unit that is
\* just young enough or just too old.
ArgsFiles(now) ==
    {Missing}
      \cup { to_string(Doc(t, "°F", ArgPlace.lat, ArgPlace.lon, "Europe/London", 0)) :
               t \in {now - CACHE_TIMEOUT, now - CACHE_TIMEOUT + 1} }

InitArgs ==
    /\ argv \in [{1} -> SeqsUpTo(AllArgs, MaxArgs)]
    /\ SYSTEM_TIME \in [{1} -> Clocks]
    /\ file \in [{1} -> ArgsFiles(SYSTEM_TIME[1])]
    /\ SETTINGS = [r \in {1} |-> None]
    /\ pc = [r \in {1} |-> "start"]
    /\ ip_object = [r \in {1} |-> None]
    /\ weather_data = [r \in {1} |-> None]
    /\ rendered = [r \in {1} |-> <<>>]
    /\ stdout = [r \in {1} |-> <<>>]
    /\ exit_code = [r \in {1} |-> None]
    /\ log = [r \in {1} |-> <<>>]
    /\ interfered = [r \in {1} |-> 0]
    /\ net_geo = <<>>
    /\ net_meteo = <<>>
    /\ cv_in = NoCall
    /\ cv_out = None
    /\ fn_in = None
    /\ fn_out = None

SpecArgs == InitArgs /\ [][NextTwin]_vars

----------------------------------------------------------------------------
(* Arguments that end the process (checked under SpecArgs) *)

\* The argument asks for the help text or the version.
AsksHelpOrVersion(a) ==
    \/ a.t = "long" /\ a.s \in {"--help", "--version"}
    \/ a.t = "short" /\ \E i \in DOMAIN a.chars : a.chars[i] \in {"h", "v"}

\* The argument is no option of the program.
IsUnrecognized(a) ==
    \/ a.t = "long" /\ a.s \notin LongFlags \cup {"--", "--help", "--version"}
    \/ a.t = "short" /\ \E i \in DOMAIN a.chars : a.chars[i] \notin ShortFlags \cup {"h", "v"}
    \/ a.t = "word"

\* Argument k of the command line is such an argument and the loop gets to
\* it: no earlier argument stopped the loop.
Meets(args, k) ==
    /\ k \in DOMAIN args
    /\ AsksHelpOrVersion(args[k]) \/ IsUnrecognized(args[k])
    /\ \A j \in 1..(k - 1) : ApplyArg(DefaultSettings, args[j]).st = "run"

\* C13: once the arguments have been parsed, if parsing met --help,
\* --version, -h, -v or an unrecognized option then a message has been
\* printed, the process has exited with status 0, nothing is rendered, no
\* settings exist, and what was printed is what the command line cut after
\* that argument prints: the arguments after it are not applied.
C13_StoppingArgumentExitsZero ==
    \A r \in Runs : \A k \in DOMAIN argv[r] :
       (pc[r] # "start" /\ Meets(argv[r], k)) =>
          /\ pc[r] = "exited"
          /\ exit_code[r] = Some(0)
          /\ stdout[r] # <<>>
          /\ stdout[r] = ParseSettings(SubSeq(argv[r], 1, k)).out
          /\ AsksHelpOrVersion(argv[r][k]) => stdout[r][1] = "version"
          /\ rendered[r] = <<>>
          /\ SETTINGS[r] = None
          /\ Len(log[r]) = 1 /\ log[r][1].ev = "exit"

\* A run that met -h after -w in one argument, with --refresh after it.
C13_Witness ==
    \E r \in Runs :
       /\ pc[r] = "exited"
       /\ argv[r] = <<Short(<<"w", "h">>), Long("--refresh")>>
       /\ stdout[r] = <<"version", "HELP_MSG">>

----------------------------------------------------------------------------
(* The two spellings of the week flag (checked under SpecArgs) *)

IsWeekFlag(a) == a = Long("--week") \/ a = Short(<<"w">>)

IsModeFlag(a) ==
    \/ a.t = "long" /\ a.s \in {"--week", "--day", "--short"}
    \/ a.t = "short" /\ \E i \in DOMAIN a.chars : a.chars[i] \in {"w", "d", "s"}

\* The last mode flag of the command line is --week or -w, and the loop
\* gets to it.
LastModeFlagIsWeek(args) ==
    \E k \in DOMAIN args :
       /\ IsWeekFlag(args[k])
       /\ \A j \in 1..(k - 1) : args[j] # Long("--")
       /\ \A j \in (k + 1)..Len(args) : ~IsModeFlag(args[j])

\* C15: when the last mode flag parsed is --week or -w, the settings select
\* the week view, and a run that renders prints the week view.
C15_WeekFlagsSelectWeek ==
    \A r \in Runs :
       (IsSome(SETTINGS[r]) /\ LastModeFlagIsWeek(argv[r])) =>
          /\ S(r).mode = "Week"
          /\ pc[r] = "done" => stdout[r] = <<"weekly_weather">>

----------------------------------------------------------------------------
(* The LAT:LON argument on its own: the arm of the argument loop for an
   argument containing ':' whose two sides parse as f32, applied to the
   default settings, for latitudes and longitudes on both sides of the two
   ranges and for NaN *)

LatValues == {-(LAT_MAX + 1), -LAT_MAX, 0, ArgPlace.lat, LAT_MAX, LAT_MAX + 1,
              LON_MAX, NaN}
LonValues == {-(LON_MAX + 1), -LON_MAX, 0, ArgPlace.lon, LAT_MAX + 1, LON_MAX,
              LON_MAX + 1, NaN}

\* No run: the state of a direct call of one function.
InitCall(inputs) ==
    /\ InitRun({})
    /\ file = [r \in {} |-> Missing]
    /\ cv_in = NoCall
    /\ fn_in \in {Some(x) : x \in inputs}

\* Everything but fn_out
runvars == <<argv, SETTINGS, SYSTEM_TIME, file, pc, ip_object, weather_data,
             rendered, stdout, exit_code, log, netvars, interfered, cv_in, cv_out,
             fn_in>>

\* x if x.contains(':'): LatLon::new(lat, lon), and the settings or the exit
ParseLatLonArg ==
    /\ fn_out = None
    /\ LET in == Unwrap(fn_in) IN
         fn_out' = Some([res |-> LatLon_new(in.lat, in.lon),
                         ps |-> ApplyArg(DefaultSettings, Colon(in.lat, in.lon))])
    /\ UNCHANGED runvars

InitLatLon == InitCall([lat : LatValues, lon : LonValues])

NextLatLon == ParseLatLonArg

SpecLatLon == InitLatLon /\ [][NextLatLon]_vars

\* A latitude in [-90, 90], a longitude in [-180, 180]; NaN is in neither.
LatInRange(x) == ~is_nan(x) /\ -LAT_MAX <= x /\ x <= LAT_MAX
LonInRange(x) == ~is_nan(x) /\ -LON_MAX <= x /\ x <= LON_MAX

\* C14: LatLon::new returns Ok exactly for a latitude in [-90, 90] with a
\* longitude in [-180, 180], with the values unchanged; otherwise it fails
\* with the variant of an axis that is out of range; and the settings built
\* from the argument never hold coordinates out of range.
C14_CoordinatesValidated ==
    IsSome(fn_out) =>
       LET in == Unwrap(fn_in)
           res == Unwrap(fn_out).res
           ps == Unwrap(fn_out).ps
       IN /\ res.ok <=> (LatInRange(in.lat) /\ LonInRange(in.lon))
          /\ res.ok => res.lat = in.lat /\ res.lon = in.lon
          /\ ~res.ok => \/ res.err = "InvalidLatitude" /\ ~LatInRange(in.lat)
                        \/ res.err = "InvalidLongitude" /\ ~LonInRange(in.lon)
          /\ IsSome(ps.settings.latlon) =>
                /\ LatInRange(Unwrap(ps.settings.latlon).lat)
                /\ LonInRange(Unwrap(ps.settings.latlon).lon)
          /\ ~res.ok => ps.st = "exit"

----------------------------------------------------------------------------
(* The views: get_time_index, one_line_weather and hourly_weather *)

MaxSeriesLen == 122   \* longest 15-minute series handed to a view

START_DISPLAY == 6 * 4
END_DISPLAY == 24 * 4
PAST_DAYS == 2
FORECAST_DAYS == 14
TERM_WIDTH == 80
TERM_HEIGHT == 32

\* The part of a MeteoApiResponse the views index: minutely_15.time is the
\* series of timestamps; of every other series only the length is kept.
Series(time, n) ==
    [time |-> time, temperature_2m |-> n, relative_humidity_2m |-> n,
     precipitation_probability |-> n, weather_code |-> n,
     wind_speed_10m |-> n, wind_direction_10m |-> n]
Daily(n) == [sunrise |-> n, sunset |-> n, precipitation_probability_max |-> n]
Md(minutely_15, daily) == [minutely_15 |-> minutely_15, daily |-> daily]

Min(a, b) == IF a < b THEN a ELSE b
saturating_sub(a, b) == IF a >= b THEN a - b ELSE 0

\* The elements of time_data (counted from 1) for which the test of
\* get_time_index's loop holds: at most 15 minutes behind the clock.
within_15min(time_data, now) ==
    {i \in DOMAIN time_data : now - time_data[i] >= 0 /\ now - time_data[i] <= 900}

\* get_time_index keeping the first index within 15 minutes, not the last
get_time_index_first(time_data, now) ==
    LET hits == within_15min(time_data, now)
    IN IF hits = {} THEN START_DISPLAY
       ELSE (CHOOSE i \in hits : \A j \in hits : i <= j) - 1

\* fn get_time_index(time_data) -> usize, with SYSTEM_TIME = now.  The loop
\* starts from result = START_DISPLAY and assigns result = index at every
\* element that passes the test, in ascending order of index: what it
\* returns is the index (counted from 0) of the last such element.
get_time_index(time_data, now) ==
    LET hits == within_15min(time_data, now)
    IN IF hits = {} THEN START_DISPLAY
       ELSE (CHOOSE i \in hits : \A j \in hits : j <= i) - 1

\* hourly_weather's window with its upper bound not clamped to the length
window_unclamped(current_time_index, len) ==
    [start |-> saturating_sub(current_time_index, START_DISPLAY),
     end |-> current_time_index + END_DISPLAY]

\* hourly_weather: let start, let end
window(current_time_index, len) ==
    [start |-> saturating_sub(current_time_index, START_DISPLAY),
     end |-> Min(current_time_index + END_DISPLAY, len)]

\* v[i] on a series of len elements; v[start..end] on one
index_ok(i, len) == i < len
slice_ok(start, end, len) == start <= end /\ end <= len

\* The first of a sequence of operations that panics, if one does
Op(site, ok) == [site |-> site, ok |-> ok]
FirstPanic(ops) ==
    LET bad == {i \in DOMAIN ops : ~ops[i].ok}
    IN IF bad = {} THEN None
       ELSE Some(ops[CHOOSE i \in bad : \A j \in bad : i <= j].site)

\* A usize is the number 2^pow + off (off alone when pow = 0); overflow
\* tells that a subtraction on the way to it went below 0.  A build with
\* overflow checks panics at that subtraction; a build without them goes on
\* with the wrapped value, 2^64 less what was missing.
usize(n) == [pow |-> 0, off |-> n, overflow |-> FALSE]
usize_sub(a, n) ==
    IF a.pow = 0 /\ a.off < n
      THEN [pow |-> 64, off |-> a.off - n, overflow |-> TRUE]
      ELSE [a EXCEPT !.off = @ - n]
usize_div(a, n) ==
    [pow |-> IF a.pow = 0 THEN 0 ELSE a.pow - 1, off |-> a.off \div n,
     overflow |-> a.overflow]
usize_ge(a, n) == a.pow > 0 \/ a.off >= n

BAR_MIN == 10

\* fn define_dimensions(): width, height, BAR_MAX, HOURLY_RES.  BAR_MAX is
\* (w - min_width_without_bars - bar_count) / 2 in usize arithmetic.
define_dimensions(term) ==
    LET w == IF IsSome(term) THEN Min(Unwrap(term).width, 80) ELSE TERM_WIDTH
        h == IF IsSome(term) THEN Unwrap(term).height ELSE TERM_HEIGHT
        full_res_h == (START_DISPLAY + END_DISPLAY) \div 4
    IN [w |-> w, h |-> h,
        BAR_MAX |-> usize_div(usize_sub(usize_sub(usize(w),
                                                  2 + 5 + 6 + 5 + 5 + 6 + 10), 2), 2),
        HOURLY_RES |->
           IF h > full_res_h THEN 4
           ELSE IF h > (full_res_h * 2) \div 3 THEN 6
           ELSE IF h > full_res_h \div 3 THEN 8
           ELSE 12]

\* What a call returned or how it ended: the index of the current sample
\* and the window, once computed; the operation that panicked, if one did;
\* the window positions of the rows printed and of those marked '>'.
ViewResult(fn, index, win, panic, rows, marked) ==
    [fn |-> fn, index |-> index, window |-> win, panic |-> panic,
     rows |-> rows, marked |-> marked]

\* fn one_line_weather(md)
one_line_weather(md, now) ==
    LET m15 == md.minutely_15
        idx == get_time_index(m15.time, now)
        ops == << Op("daily.precipitation_probability_max[PAST_DAYS]",
                     index_ok(PAST_DAYS, md.daily.precipitation_probability_max)),
                  Op("wind_speed_10m[now]", index_ok(idx, m15.wind_speed_10m)),
                  Op("wind_direction_10m[now]", index_ok(idx, m15.wind_direction_10m)),
                  Op("daily.sunset[PAST_DAYS]", index_ok(PAST_DAYS, md.daily.sunset)),
                  Op("daily.sunrise[PAST_DAYS]", index_ok(PAST_DAYS, md.daily.sunrise)),
                  Op("temp[now]", index_ok(idx, m15.temperature_2m)),
                  Op("humid[now]", index_ok(idx, m15.relative_humidity_2m)),
                  Op("wmo[now]", index_ok(idx, m15.weather_code)),
                  Op("time[now]", index_ok(idx, Len(m15.time))) >>
    IN ViewResult("one_line_weather", Some(idx), None, FirstPanic(ops), {}, {})

\* fn hourly_weather(md), in a terminal of size term
hourly_weather(md, now, term) ==
    LET m15 == md.minutely_15
        dims == define_dimensions(term)
        daily_ok == index_ok(PAST_DAYS, md.daily.sunset)
                      /\ index_ok(PAST_DAYS, md.daily.sunrise)
        idx == get_time_index(m15.time, now)
        win == window(idx, Len(m15.time))
        sl(len) == slice_ok(win.start, win.end, len)
        ops == << Op("daily.sunset[PAST_DAYS]", index_ok(PAST_DAYS, md.daily.sunset)),
                  Op("daily.sunrise[PAST_DAYS]", index_ok(PAST_DAYS, md.daily.sunrise)),
                  Op("time[start..end]", sl(Len(m15.time))),
                  Op("temperature_2m[start..end]", sl(m15.temperature_2m)),
                  Op("relative_humidity_2m[start..end]", sl(m15.relative_humidity_2m)),
                  Op("precipitation_probability[start..end]",
                     sl(m15.precipitation_probability)),
                  Op("wind_speed_10m[start..end]", sl(m15.wind_speed_10m)),
                  Op("wind_direction_10m[start..end]", sl(m15.wind_direction_10m)),
                  Op("weather_code[start..end]", sl(m15.weather_code)),
                  Op("temp.iter().min_by().unwrap()", win.end - win.start > 0) >>
        panic == FirstPanic(ops)
        rows == IF IsSome(panic) THEN {}
                ELSE {i \in 0..(win.end - win.start - 1) : i % dims.HOURLY_RES = 0}
    IN ViewResult("hourly_weather",
                  IF daily_ok THEN Some(idx) ELSE None,
                  IF daily_ok THEN Some(win) ELSE None,
                  panic, rows, {i \in rows : i = START_DISPLAY})

\* An ascending series of n timestamps 15 minutes apart, from t0 on
Ascending(t0, n) == [i \in 1..n |-> t0 + 900 * (i - 1)]

\* Clock values around sample k of such a series: on it, between it and the
\* next, and on the next.
Around(t0, k) == {t0 + 900 * k + d : d \in {0, 450, 900}}

\* For a series of n samples: clocks before the series, at its first
\* samples, around the default index, a window's length before its end, at
\* its end and after it.
ViewClocks(t0, n) ==
    UNION {Around(t0, k) : k \in {-2, 0, START_DISPLAY - 1, START_DISPLAY,
                                   n - END_DISPLAY - 1, n - END_DISPLAY, n - 2, n}}

\* Terminal (none detected, or one of a height for each of the strides 8, 6
\* and 12), length of the daily series (the PAST_DAYS + FORECAST_DAYS
\* entries the service sends, or too few to hold today), and by how much
\* the other 15-minute series are longer than the time series.
ViewEnvs ==
    { [term |-> None, daily |-> PAST_DAYS + FORECAST_DAYS, longer |-> 0],
      [term |-> Some([width |-> 60, height |-> 20]),
       daily |-> PAST_DAYS + FORECAST_DAYS, longer |-> 0],
      [term |-> Some([width |-> 100, height |-> 25]),
       daily |-> PAST_DAYS + FORECAST_DAYS, longer |-> 0],
      [term |-> Some([width |-> 60, height |-> 10]),
       daily |-> PAST_DAYS + FORECAST_DAYS, longer |-> 0],
      [term |-> None, daily |-> PAST_DAYS, longer |-> 0],
      [term |-> None, daily |-> PAST_DAYS + FORECAST_DAYS, longer |-> 1],
      [term |-> None, daily |-> PAST_DAYS + FORECAST_DAYS, longer |-> -1] }

\* Documents with a time series of every length up to MaxSeriesLen.
ViewInputs ==
    LET t0 == 1700000000 - 900 * START_DISPLAY IN
    UNION { { [md |-> Md(Series(Ascending(t0, n), n + e.longer), Daily(e.daily)),
               now |-> now, term |-> e.term] :
              now \in ViewClocks(t0, n), e \in {x \in ViewEnvs : n + x.longer >= 0} }
          : n \in 0..MaxSeriesLen }

CallGetTimeIndex ==
    /\ fn_out = None
    /\ LET in == Unwrap(fn_in) IN
         fn_out' = Some(ViewResult("get_time_index",
                                   Some(get_time_index(in.md.minutely_15.time, in.now)),
                                   None, None, {}, {}))
    /\ UNCHANGED runvars

CallOneLineWeather ==
    /\ fn_out = None
    /\ fn_out' = Some(one_line_weather(Unwrap(fn_in).md, Unwrap(fn_in).now))
    /\ UNCHANGED runvars

CallHourlyWeather ==
    /\ fn_out = None
    /\ LET in == Unwrap(fn_in) IN
         fn_out' = Some(hourly_weather(in.md, in.now, in.term))
    /\ UNCHANGED runvars

InitViews == InitCall(ViewInputs)

NextViews ==
    \/ CallGetTimeIndex
    \/ CallOneLineWeather
    \/ CallHourlyWeather

SpecViews == InitViews /\ [][NextViews]_vars

----------------------------------------------------------------------------
(* Properties of the views (checked under SpecViews) *)

ViewCalled(fn) == IsSome(fn_out) /\ Unwrap(fn_out).fn = fn
ViewTime == Unwrap(fn_in).md.minutely_15.time

\* The indices (counted from 0) of the samples at most 900 s behind the clock
Current == {i \in 0..(Len(ViewTime) - 1) :
               /\ 0 <= Unwrap(fn_in).now - ViewTime[i + 1]
               /\ Unwrap(fn_in).now - ViewTime[i + 1] <= 900}

\* C16: on an ascending 15-minute series get_time_index returns the largest
\* index i with 0 <= now - time[i] <= 900 when there is one, and 24 when
\* there is none, whatever the length of the series.
C16_LatestCurrentIndexOrDefault ==
    ViewCalled("get_time_index") =>
       LET idx == Unwrap(Unwrap(fn_out).index) IN
         IF Current # {}
           THEN idx \in Current /\ \A j \in Current : j <= idx
           ELSE idx = 24

\* Two samples are within 900 s of the clock and the later one is returned.
C16_Witness ==
    /\ ViewCalled("get_time_index")
    /\ Cardinality(Current) = 2
    /\ Unwrap(Unwrap(fn_out).index) - 1 \in Current

\* C17: the window hourly_weather computes for a series of len samples and
\* the index now of get_time_index is start = max(0, now - 24),
\* end = min(len, now + 96), and 0 <= start <= end <= len.
C17_WindowInBounds ==
    (ViewCalled("hourly_weather") /\ IsSome(Unwrap(fn_out).window)) =>
       LET now == Unwrap(Unwrap(fn_out).index)
           win == Unwrap(Unwrap(fn_out).window)
           len == Len(ViewTime)
       IN /\ win.start = (IF now - 24 > 0 THEN now - 24 ELSE 0)
          /\ win.end = (IF now + 96 < len THEN now + 96 ELSE len)
          /\ 0 <= win.start /\ win.start <= win.end /\ win.end <= len

\* The current sample is the first of a series shorter than a window: both
\* bounds are clamped.
C17_Witness ==
    /\ ViewCalled("hourly_weather")
    /\ Unwrap(fn_out).index = Some(0)
    /\ Len(ViewTime) \in 1..95
    /\ Unwrap(fn_out).window = Some([start |-> 0, end |-> Len(ViewTime)])

\* C18: for a document whose daily series hold today's entry, whatever the
\* length of its 15-minute series, one_line_weather and hourly_weather end
\* without a panic.
C18_ViewsNeverPanic ==
    (/\ ViewCalled("one_line_weather") \/ ViewCalled("hourly_weather")
     /\ Unwrap(fn_in).md.daily.sunset > PAST_DAYS)
       => Unwrap(fn_out).panic = None

----------------------------------------------------------------------------
(* mk_bar on its own.  An f32 argument is an integer in a fixed unit (per
   cent for the precipitation bar, tenths of a degree for the temperature
   bar); the value lerp returns is the exact fraction num / den, den > 0. *)

\* fn lerp(a, b, c, d, e) = (a - b) * (e - d) / (c - b) + d, for b < c
lerp(a, b, c, d, e) == [num |-> (a - b) * (e - d) + d * (c - b), den |-> c - b]

\* x as usize: the integer part, 0 for a negative x
as_usize(x) == IF x.num < 0 THEN 0 ELSE x.num \div x.den

\* match y, for y = x - x.trunc(): one glyph for each eighth of [0, 1), and
\* "*" for a y in none of them, which is a y below 0 (x negative, not whole)
conversion(x) ==
    IF x.num < 0
      THEN IF (-x.num) % x.den = 0 THEN " " ELSE "*"
      ELSE << " ", "▏", "▎", "▍", "▌", "▋", "▊", "▉" >>[((x.num % x.den) * 8) \div x.den + 1]

\* format!("{:1$}", blocks, width): blocks, followed by spaces up to width
\* characters when it has fewer; a longer string is left as it is
format_width(blocks, width) ==
    blocks \o [i \in 1..(width - Len(blocks)) |-> " "]

\* fn mk_bar(val, low, high, bar_low, bar_max) -> String, as the sequence of
\* its characters
mk_bar(val, low, high, bar_low, bar_max) ==
    LET x == lerp(val, low, high, bar_low, bar_max - 1)
        blocks == [i \in 1..as_usize(x) |-> "█"] \o <<conversion(x)>>
    IN format_width(blocks, bar_max)

\* The two bars of hourly_weather: precipitation, from 0 to 100 per cent
\* with bar_low = 0; temperature, here from 30.0 to 70.0 degrees with
\* bar_low = 1.
BarScales ==
    { [low |-> 0, high |-> 100, bar_low |-> 0],
      [low |-> 300, high |-> 700, bar_low |-> 1] }

\* Values below low, at low, inside, at high and above high, as parts of
\* the scale's length in sixteenths.
BarSteps == {-16, -3, 0, 1, 2, 7, 8, 15, 16, 17, 19, 24, 32}

\* BAR_MAX in a terminal of 80 columns and of 60 columns, and its initial value
BarWidths == {19, 10, 9}

BarInputs ==
    { [val |-> sc.low + (s * (sc.high - sc.low)) \div 16, low |-> sc.low,
       high |-> sc.high, bar_low |-> sc.bar_low, bar_max |-> w] :
      sc \in BarScales, s \in BarSteps, w \in BarWidths }

CallMkBar ==
    /\ fn_out = None
    /\ LET in == Unwrap(fn_in) IN
         fn_out' = Some(mk_bar(in.val, in.low, in.high, in.bar_low, in.bar_max))
    /\ UNCHANGED runvars

InitBar == InitCall(BarInputs)

NextBar == CallMkBar

SpecBar == InitBar /\ [][NextBar]_vars

\* C19: mk_bar returns exactly bar_max characters for every value: at or
\* below low, inside [low, high], high itself, and above high.
C19_BarHasExactWidth ==
    IsSome(fn_out) => Len(Unwrap(fn_out)) = Unwrap(fn_in).bar_max

----------------------------------------------------------------------------
(* get_moon_phase on its own *)

\* The result: MoonPhase::Invalid(n) carries n, the named phases carry 0
MoonPhase(phase, n) == [phase |-> phase, n |-> n]

\* get_moon_phase with the last range ending at inc * 8, without the remainder
get_moon_phase_short_last_range(time) ==
    LET period == 2551442
        inc == 2551442 \div 8
        offset == 86400 - 3600
        lunar == (time + offset) % period
    IN IF 0 <= lunar /\ lunar <= inc THEN MoonPhase("LastQ", 0)
       ELSE IF inc <= lunar /\ lunar <= inc * 2 THEN MoonPhase("WanCres", 0)
       ELSE IF inc * 2 <= lunar /\ lunar <= inc * 3 THEN MoonPhase("New", 0)
       ELSE IF inc * 3 <= lunar /\ lunar <= inc * 4 THEN MoonPhase("WaxCres", 0)
       ELSE IF inc * 4 <= lunar /\ lunar <= inc * 5 THEN MoonPhase("FirstQ", 0)
       ELSE IF inc * 5 <= lunar /\ lunar <= inc * 6 THEN MoonPhase("WaxGib", 0)
       ELSE IF inc * 6 <= lunar /\ lunar <= inc * 7 THEN MoonPhase("Full", 0)
       ELSE IF inc * 7 <= lunar /\ lunar <= inc * 8 THEN MoonPhase("WanGib", 0)
       ELSE MoonPhase("Invalid", lunar)

\* fn get_moon_phase(time: u32) -> MoonPhase: the first arm whose inclusive
\* range holds lunar.  (time + offset stays below 2^32 for every time
\* before the year 2106.)
get_moon_phase(time) ==
    LET period == 2551442
        inc == 2551442 \div 8
        remainder == period % 8
        offset == 86400 - 3600
        lunar == (time + offset) % period
    IN IF 0 <= lunar /\ lunar <= inc THEN MoonPhase("LastQ", 0)
       ELSE IF inc <= lunar /\ lunar <= inc * 2 THEN MoonPhase("WanCres", 0)
       ELSE IF inc * 2 <= lunar /\ lunar <= inc * 3 THEN MoonPhase("New", 0)
       ELSE IF inc * 3 <= lunar /\ lunar <= inc * 4 THEN MoonPhase("WaxCres", 0)
       ELSE IF inc * 4 <= lunar /\ lunar <= inc * 5 THEN MoonPhase("FirstQ", 0)
       ELSE IF inc * 5 <= lunar /\ lunar <= inc * 6 THEN MoonPhase("WaxGib", 0)
       ELSE IF inc * 6 <= lunar /\ lunar <= inc * 7 THEN MoonPhase("Full", 0)
       ELSE IF inc * 7 <= lunar /\ lunar <= inc * 8 + remainder
         THEN MoonPhase("WanGib", 0)
       ELSE MoonPhase("Invalid", lunar)

\* Remainders of time + offset by the period: the first and the last, and
\* for each eighth of the period its middle and the three remainders on
\* either side of its end.
MoonRemainders ==
    LET period == 2551442
        inc == 2551442 \div 8
    IN {x \in UNION { {k * inc + d : d \in -3..3} \cup {k * inc + inc \div 2}
                      : k \in 0..8 }
          : 0 <= x /\ x < period}

\* The first time after 666 periods of the epoch with a given remainder
MoonTime(x) == 2551442 * 666 + x - (86400 - 3600)

CallGetMoonPhase ==
    /\ fn_out = None
    /\ fn_out' = Some(get_moon_phase(Unwrap(fn_in).time))
    /\ UNCHANGED runvars

InitMoon == InitCall({[time |-> MoonTime(x)] : x \in MoonRemainders})

NextMoon == CallGetMoonPhase

SpecMoon == InitMoon /\ [][NextMoon]_vars

\* The remainder a time stands for
RemainderOf(time) == (time + 82800) % 2551442

\* The remainders of MoonRemainders that begin a bucket: 0, and every one
\* whose predecessor is in another phase.
BucketStarts ==
    {x \in MoonRemainders :
        \/ x = 0
        \/ /\ x - 1 \in MoonRemainders
           /\ get_moon_phase(MoonTime(x - 1)).phase # get_moon_phase(MoonTime(x)).phase}

\* The width of the bucket that begins at s: up to the next beginning, or
\* to the period.
BucketWidth(s) ==
    LET later == {t \in BucketStarts \cup {2551442} : t > s}
    IN (CHOOSE t \in later : \A u \in later : t <= u) - s

\* C20: get_moon_phase maps every remainder in [0, 2551442) to one of the 8
\* named phases, never to Invalid; the remainders of one phase are
\* contiguous; there are 8 buckets and their widths differ by at most
\* 2551442 % 8.
C20_EightContiguousPhases ==
    IsSome(fn_out) =>
       LET x == RemainderOf(Unwrap(fn_in).time)
           phase == Unwrap(fn_out).phase
       IN /\ phase \in {"Full", "WanGib", "LastQ", "WanCres", "New", "WaxCres",
                        "FirstQ", "WaxGib"}
          /\ \A y, z \in MoonRemainders :
                (y < z /\ z < x /\ get_moon_phase(MoonTime(y)).phase = phase)
                   => get_moon_phase(MoonTime(z)).phase = phase
          /\ Cardinality(BucketStarts) = 8
          /\ \A s, t \in BucketStarts :
                /\ BucketWidth(s) - BucketWidth(t) <= 2551442 % 8
                /\ s # t => get_moon_phase(MoonTime(s)).phase
                              # get_moon_phase(MoonTime(t)).phase

\* The last remainder of the period, which only the remainder added to the
\* last range keeps out of Invalid.
C20_Witness ==
    /\ IsSome(fn_out)
    /\ RemainderOf(Unwrap(fn_in).time) = 2551441
    /\ Unwrap(fn_out) = MoonPhase("WanGib", 0)

----------------------------------------------------------------------------
(* The cache-valid path (checked under Spec) *)

\* Step i of run r is a call of is_cache_valid that returned true: it
\* decoded a document and the document passes the tests.
Accepted(r, i) ==
    /\ log[r][i].ev = "is_cache_valid"
    /\ IsSome(log[r][i].doc)
    /\ is_cache_valid(to_string(Unwrap(log[r][i].doc)), S(r), SYSTEM_TIME[r])

\* C21: in a run whose cache file no other process touches, once
\* check_cache and is_cache_valid have passed, the run issues no
\* geolocation and no forecast request and does not write the cache file:
\* it goes on to use_cache and to the view, the file stays as it was, and
\* the run ends with status 0 having rendered the cached document once.
C21_ValidCacheRenderedWithoutRequests ==
    \A r \in Runs : \A i \in DOMAIN log[r] :
       (Accepted(r, i) /\ Undisturbed(r)) =>
          /\ \A j \in DOMAIN log[r] :
                log[r][j].ev \notin GeoEvents \cup MeteoEvents \cup WriteEvents
          /\ pc[r] \in {"use_cache", "render", "done"}
          /\ file[SAVE_LOCATION(r)] = to_string(Unwrap(log[r][i].doc))
          /\ Finished(r) => /\ rendered[r] = <<Unwrap(log[r][i].doc)>>
                            /\ exit_code[r] = Some(0)

\* A run that found a valid cache, rendered it and ended, the file untouched.
C21_Witness ==
    \E r \in Runs : \E i \in DOMAIN log[r] :
       /\ Accepted(r, i) /\ Undisturbed(r)
       /\ pc[r] = "done"
       /\ Len(rendered[r]) = 1 /\ rendered[r][1].serial = 0
       /\ file[SAVE_LOCATION(r)] = to_string(rendered[r][1])

----------------------------------------------------------------------------
(* The unit of what is rendered (checked under Spec) *)

\* The unit string of the scale the settings select
UnitSelected(set) == IF set.temp_scale = "Fahrenheit" THEN "°F" ELSE "°C"

\* C22: in a run whose cache file no other process touches, every document
\* handed to a view has the unit string of the scale the settings select,
\* whether it was fetched, read from a valid cache, or read from the cache
\* after failed requests.
C22_RenderedUnitIsSelectedUnit ==
    \A r \in Runs : \A i \in DOMAIN rendered[r] :
       Undisturbed(r) => rendered[r][i].unit = UnitSelected(S(r))

----------------------------------------------------------------------------
(* Two runs in one system: they share the cache file at SAVE_LOCATION and
   read the same clock value.  The k-th request of either run to a service
   gets that service's k-th answer.  In SpecSeq the second run starts when
   the first has ended; in SpecRace the steps of the two interleave. *)

PairArgs == {<<>>, <<Colon(ArgPlace.lat, ArgPlace.lon)>>, <<Long("--celsius")>>}

\* The one cache file of a system, when the first run starts: absent, or a
\* document for ArgPlace in the default unit that is just young enough.
PairFiles(now) ==
    {Missing,
     to_string(Doc(now - CACHE_TIMEOUT + 1, "°F", ArgPlace.lat, ArgPlace.lon,
                   "Europe/London", 0))}

InitPair(files) ==
    /\ argv \in [{1, 2} -> PairArgs]
    /\ SYSTEM_TIME \in [{1, 2} -> Clocks]
    /\ SYSTEM_TIME[1] = SYSTEM_TIME[2]
    /\ file \in [{1} -> files]
    /\ SETTINGS = [r \in {1, 2} |-> None]
    /\ pc = [r \in {1, 2} |-> "start"]
    /\ ip_object = [r \in {1, 2} |-> None]
    /\ weather_data = [r \in {1, 2} |-> None]
    /\ rendered = [r \in {1, 2} |-> <<>>]
    /\ stdout = [r \in {1, 2} |-> <<>>]
    /\ exit_code = [r \in {1, 2} |-> None]
    /\ log = [r \in {1, 2} |-> <<>>]
    /\ interfered = [r \in {1, 2} |-> 0]
    /\ net_geo = <<>>
    /\ net_meteo = <<>>
    /\ cv_in = NoCall
    /\ cv_out = None
    /\ fn_in = None
    /\ fn_out = None

\* The first run finds no cache file.
InitSeq == InitPair({Missing})

\* Run r may take a step: every run started before it has ended.
Turn(r) == \A q \in Runs : q < r => Finished(q)

NextSeq ==
    \/ \E r \in Runs : Turn(r) /\ ParseArgs(r)
    \/ \E r \in Runs : Turn(r) /\ CheckCache(r)
    \/ \E r \in Runs : Turn(r) /\ IsCacheValid(r)
    \/ \E r \in Runs : Turn(r) /\ UseCache(r)
    \/ \E r \in Runs : Turn(r) /\ MainRequestIp(r)
    \/ \E r \in Runs : Turn(r) /\ MainGetCache(r)
    \/ \E r \in Runs : Turn(r) /\ NoCacheArm(r)
    \/ \E r \in Runs : Turn(r) /\ GetMeteoOrExt(r)
    \/ \E r \in Runs : Turn(r) /\ GetMeteoOrCache(r)
    \/ \E r \in Runs : Turn(r) /\ Render(r)

SpecSeq == InitSeq /\ [][NextSeq]_vars

InitRace == InitPair(PairFiles(1700000000))

SpecRace == InitRace /\ [][NextTwin]_vars

----------------------------------------------------------------------------
(* The place of a document rendered from the cache (checked under SpecSeq) *)

\* Where the geolocation service locates the caller
CallerPlace ==
    LET a == CHOOSE x \in GeoAnswers : x.ok /\ IsSome(x.body.lat) /\ IsSome(x.body.lon)
    IN LatLon(Unwrap(a.body.lat), Unwrap(a.body.lon))

\* The places run r may be asking for: its explicit coordinates; without
\* them, the caller's place, or the default place the program takes when
\* the geolocation service does not answer.
Asked(r) ==
    IF IsSome(S(r).latlon) THEN {Unwrap(S(r).latlon)}
    ELSE {CallerPlace, LatLon(DEFAULT_LAT, DEFAULT_LON)}

\* The document is for a place within 0.1 degree of p on both axes
Within(doc, p) ==
    /\ Abs(doc.latitude - p.lat) <= COORD_TOLERANCE
    /\ Abs(doc.longitude - p.lon) <= COORD_TOLERANCE

\* Step i of run r renders a document that use_cache read from the cache
RendersCached(r, i) ==
    /\ log[r][i].ev = "render"
    /\ \A j \in 1..(i - 1) : log[r][j].ev # "meteo_ok"
    /\ \E j \in 1..(i - 1) : /\ log[r][j].ev = "get_cache_ok"
                             /\ log[r][j].by = "use_cache"
                             /\ log[r][j].doc = log[r][i].doc

\* C23: in a sequence of runs sharing one cache file, every document a run
\* renders from the cache is for a place within 0.1 degree of the place the
\* run asks for: its explicit coordinates or, without them, the place where
\* the geolocation service locates the caller (the default place counted as
\* such, for a service that does not answer).
C23_CachedDocumentIsForAskedPlace ==
    \A r \in Runs : \A i \in DOMAIN log[r] :
       RendersCached(r, i) =>
          \E p \in Asked(r) : Within(Unwrap(log[r][i].doc), p)

----------------------------------------------------------------------------
(* The cache-valid path with a second run under way (checked under SpecRace) *)

\* C24: with a second run writing the cache file concurrently, a run whose
\* is_cache_valid accepted a document renders from the cache only that
\* document: what use_cache reads and the view gets is the document that
\* was tested, so it passes the tests of age, unit and place.
C24_RendersTheValidatedDocument ==
    \A r \in Runs : \A i, j \in DOMAIN log[r] :
       (Accepted(r, i) /\ i < j /\ RendersCached(r, j)) =>
          /\ log[r][j].doc = log[r][i].doc
          /\ is_cache_valid(to_string(Unwrap(log[r][j].doc)), S(r), SYSTEM_TIME[r])

----------------------------------------------------------------------------
(* The marker of the day view (checked under SpecViews) *)

\* C25: when hourly_weather has printed its rows, every row marked '>' is
\* at the window position i with start + i = the index get_time_index
\* returned, and when the row of that index is among the rows printed it is
\* marked and no other row is.
C25_MarkerOnCurrentRow ==
    (ViewCalled("hourly_weather") /\ Unwrap(fn_out).panic = None) =>
       LET now == Unwrap(Unwrap(fn_out).index)
           start == Unwrap(Unwrap(fn_out).window).start
           rows == Unwrap(fn_out).rows
           marked == Unwrap(fn_out).marked
       IN /\ \A i \in marked : start + i = now
          /\ now - start \in rows => marked = {now - start}

----------------------------------------------------------------------------
(* Termination of a run.  Every request and every file operation returns,
   so a run that can take a step takes one: weak fairness on the steps of
   the program (the writes of other processes are under no obligation). *)

SpecFair == Init /\ [][Next]_vars /\ WF_vars(NextTwin)

\* The kinds of step of the history: the two results of one operation are
\* one kind.
StepKinds == {GeoEvents, MeteoEvents, WriteEvents, {"get_cache_ok", "get_cache_err"},
              {"settings"}, {"exit"}, {"check_cache"}, {"is_cache_valid"},
              {"render"}}
KindOf(ev) == CHOOSE k \in StepKinds : ev \in k

\* No function of run r has done the same operation twice.
NoRepeat(r) ==
    \A i, j \in DOMAIN log[r] :
       (i < j /\ log[r][i].by = log[r][j].by) => KindOf(log[r][i].ev) # KindOf(log[r][j].ev)

ExitedAtParsing(r) ==
    /\ pc[r] = "exited" /\ exit_code[r] = Some(0)
    /\ SETTINGS[r] = None
    /\ Len(log[r]) = 1
    /\ rendered[r] = <<>>
ExitedAfterFailedForecast(r) ==
    /\ pc[r] = "exited" /\ exit_code[r] = Some(1)
    /\ Len(log[r]) >= 2
    /\ log[r][Len(log[r]) - 1].ev = "meteo_err"
    /\ rendered[r] = <<>>
RenderedOnce(r) ==
    /\ pc[r] = "done" /\ exit_code[r] = Some(0)
    /\ Len(rendered[r]) = 1
    /\ Count(log[r], {"render"}) = 1
    /\ log[r][Len(log[r])].ev = "render"
    /\ Len(stdout[r]) = 1

----------------------------------------------------------------------------
(* define_dimensions and the bar of the week view on their own, for every
   terminal width up to MaxTermWidth and for both kinds of build *)

MaxTermWidth == 100   \* widest terminal detected

\* weekly_weather: let lcl_bar_max = BAR_MAX - 4
lcl_bar_max(dims) == usize_sub(dims.BAR_MAX, 4)

\* What the call computed, and the panic of a build with overflow checks
DimResult(fn, bar_max, lcl, panic) ==
    [fn |-> fn, BAR_MAX |-> bar_max, lcl_bar_max |-> lcl, panic |-> panic]

\* A subtraction that overflowed panics in a build with overflow checks
SubPanic(x, build) ==
    IF x.overflow /\ build = "debug"
      THEN Some("attempt to subtract with overflow") ELSE None

DimInputs ==
    [term : {None} \cup {Some([width |-> w, height |-> h]) :
                            w \in 1..MaxTermWidth, h \in {10, 32}},
     build : {"debug", "release"}]

CallDefineDimensions ==
    /\ fn_out = None
    /\ LET in == Unwrap(fn_in)
           dims == define_dimensions(in.term)
       IN fn_out' = Some(DimResult("define_dimensions", dims.BAR_MAX, None,
                                   SubPanic(dims.BAR_MAX, in.build)))
    /\ UNCHANGED runvars

\* weekly_weather up to the first bar of its temperature column
CallWeeklyWeather ==
    /\ fn_out = None
    /\ LET in == Unwrap(fn_in)
           dims == define_dimensions(in.term)
           lcl == lcl_bar_max(dims)
       IN fn_out' = Some(DimResult("weekly_weather", dims.BAR_MAX,
                                   IF IsSome(SubPanic(dims.BAR_MAX, in.build))
                                     THEN None ELSE Some(lcl),
                                   SubPanic(lcl, in.build)))
    /\ UNCHANGED runvars

InitDims == InitCall(DimInputs)

NextDims ==
    \/ CallDefineDimensions
    \/ CallWeeklyWeather

SpecDims == InitDims /\ [][NextDims]_vars

\* C27: for every detected terminal width w >= 1 define_dimensions stores
\* BAR_MAX = (min(w, 80) - 39 - 2) / 2 with no subtraction going below 0,
\* the value is at least BAR_MIN = 10, and weekly_weather's BAR_MAX - 4 does
\* not go below 0 either: no build panics and no value wraps.
C27_BarWidthNeverUnderflows ==
    (IsSome(fn_out) /\ IsSome(Unwrap(fn_in).term)) =>
       LET w == Min(Unwrap(Unwrap(fn_in).term).width, 80)
           out == Unwrap(fn_out)
       IN /\ out.panic = None
          /\ ~out.BAR_MAX.overflow
          /\ out.BAR_MAX = usize((w - 39 - 2) \div 2)
          /\ usize_ge(out.BAR_MAX, 10)
          /\ IsSome(out.lcl_bar_max) => ~Unwrap(out.lcl_bar_max).overflow

====
